---- MODULE Spec2Model ----
(***************************************************************************)
(* Model of the wunder-obs processing pipeline:                            *)
(*   - download_async.py : fetch_all / download_data / parse_info_tiles    *)
(*   - driver.py         : data_calc_qc / create_tile_output / process_data*)
(*                                                                         *)
(* Units.  Time is in minutes (UTC).  Precipitation counters are in        *)
(* thousandths of an inch, so that round(x, 2) is a real operation         *)
(* (rounding to the nearest multiple of 10).                               *)
(***************************************************************************)
EXTENDS Integers, Sequences, FiniteSets, TLC

(***************************************************************************)
(* Program constants (configs.py, driver.py)                               *)
(***************************************************************************)
MAX_RETRIES == 5
PURGE_HOURS == 120
MAX_DIFF_MINUTES == 5
MAX_AGE_MINUTES == 30
x_start == 500
y_start == 744

\* the accumulation windows of create_tile_output, in the order of its loop
Windows == <<15, 30, 60, 180>>

\* fetch_all: the first value of delay, and the seconds slept before a retry
\* round (time.sleep(2))
InitialDelay == 3
RetrySleep == 2

\* np.nan: a value outside the range of every counter and of every difference
NaN == 999999

(***************************************************************************)
(* Bounds of the model                                                     *)
(***************************************************************************)
\* number of tile columns of the domain (x_start .. x_end, one row)
NumX == 3
\* longest site history handed to data_calc_qc
MaxObs == 4
\* minutes of wall-clock time looked at
MaxClock == 12

x_end == x_start + NumX - 1
y_end == y_start

\* the instants at which a cycle may run (utcnow(), or the -t argument): one
\* quarter hour, and one more than PURGE_HOURS later.  A behaviour runs as
\* many cycles as there are instants, never at an earlier instant than the
\* cycle before, and may run several at the same instant.
CycleTimes == {602, 602 + PURGE_HOURS * 60 + 15}
MaxCycles == Cardinality(CycleTimes)

\* timestamps, counter values and local hours of the histories given to
\* data_calc_qc
TimeVals == {0, 120, 130, 160, 180}
PrecipVals == {50, 100, 152, 200, NaN}
HourVals == <<23, 0, 1>>

\* the instants at which driver.py may start (utcnow() of main), when the
\* newest rows of the tile files are those of SnapBodies
NowVals == {700, 701}

VARIABLES
    \* ---- download_async.py
    pc,         \* position of run_realtime.py: start, and within run_crons
                \* idle, fetch, parse, driver
    ncycles,    \* cycles started so far
    dt,         \* download_data: dt (the cycle time)
    urls,       \* fetch_all: urls, each url identified by its tile <<x, y>>
    xvals,      \* fetch_all: xvals
    yvals,      \* fetch_all: yvals
    full_res,   \* fetch_all: full_res
    attempt,    \* fetch_all: iterations of the retry loop done
    tasks,      \* fetch_all: tasks, as a timed-out gather left them (what
                \* each task ended with), <<>> while they are newly created
    delay,      \* fetch_all: delay
    sleeps,     \* the seconds of every time.sleep() of fetch_all, in order
    created,    \* the urls the last step called create_task(fetch(..)) for
    raised,     \* the function of download_async.py that raised, or "none"
    todo,       \* download_data: pool.starmap work items not yet run
    store,      \* {x}_{y}.parquet for every tile
    master_db,  \* master_db.parquet
    now,        \* process_data: now
    latest_obs, \* latest_obs.parquet: its rows, and whether the file is whole
    seen,       \* app.py: what update_graph last read from latest_obs.parquet
    \* ---- run_realtime.py
    files,      \* the tiles whose {x}_{y}.parquet exists
    driver_rc,  \* run_driver: p.returncode of the last driver.py process
    backfills,  \* initialize_data: download_async.py -t processes run so far
    cron_pc,    \* where run_realtime.py is (at), the job or the loop index
                \* it is working on (job), latest_quarter_hour (lqh)
    clock,      \* wall-clock minutes since the orchestrator was started
    next_run,   \* schedule: next_run of every job
    running,    \* the subprocesses started with Popen that have not ended
    log,        \* every Popen so far: the script, its -t argument, the time
    \* ---- how the request for each tile last ended in this cycle (ok, bad,
    \* retry, exception, timeout), and the files at the start of the cycle
    outcome,
    store0,
    \* ---- driver.py, create_tile_output for one site
    qc_data,    \* data (the site's rows, sorted by dateutc)
    qc_arg,     \* data as it was handed to the last data_calc_qc call
    qc_data0,   \* data as create_tile_output first had it (line 112)
    qc_out,     \* the values appended to output_dict so far, one per window
    counts      \* counts

mainvars == <<pc, ncycles, dt, urls, xvals, yvals, full_res, attempt, todo,
              store, master_db, outcome, store0, tasks, delay, sleeps,
              created, raised, now, latest_obs, seen, files, driver_rc,
              backfills>>
qcvars == <<qc_data, qc_arg, qc_data0, qc_out, counts>>
schedvars == <<cron_pc, clock, next_run, running, log>>
cyclevars == <<pc, ncycles, dt, urls, xvals, yvals, full_res, attempt, todo,
               store, master_db, outcome, store0, tasks, delay, sleeps,
               created, raised, now, latest_obs, seen, files, driver_rc>>
vars == <<mainvars, qcvars, schedvars>>

(***************************************************************************)
(* Helpers                                                                 *)
(***************************************************************************)
Abs(v) == IF v < 0 THEN -v ELSE v

Min(a, b) == IF a <= b THEN a ELSE b

RECURSIVE SelectSeqBy(_, _)
\* rows of s whose dateutc is >= bound, in order
SelectSeqBy(s, bound) ==
    IF s = <<>> THEN <<>>
    ELSE IF Head(s).dateutc >= bound
         THEN <<Head(s)>> \o SelectSeqBy(Tail(s), bound)
         ELSE SelectSeqBy(Tail(s), bound)

\* the elements of a finite set of integers in ascending order
RECURSIVE SortedSeq(_)
SortedSeq(S) ==
    IF S = {} THEN <<>>
    ELSE LET m == CHOOSE v \in S : \A w \in S : v <= w
         IN <<m>> \o SortedSeq(S \ {m})

(***************************************************************************)
(* driver.py: data_calc_qc                                                 *)
(***************************************************************************)
IsFinite(v) == v # NaN

FSub_NaNAsZero(a, b) == (IF a = NaN THEN 0 ELSE a) - (IF b = NaN THEN 0 ELSE b)

\* float subtraction and addition with NaN propagation
FSub(a, b) == IF a = NaN \/ b = NaN THEN NaN ELSE a - b
FAdd(a, b) == IF a = NaN \/ b = NaN THEN NaN ELSE a + b

Round2_NoRound(v) == v

\* round(v, 2): nearest hundredth (multiple of 10 thousandths), ties to even
Round2(v) ==
    IF v = NaN THEN NaN
    ELSE LET a == Abs(v)
             q == a \div 10
             r == a % 10
             m == IF r > 5 \/ (r = 5 /\ q % 2 = 1) THEN (q + 1) * 10 ELSE q * 10
         IN IF v < 0 THEN -m ELSE m

\* pandas idxmin: the first position holding the smallest value
IdxMin(f) ==
    CHOOSE i \in DOMAIN f :
        \A j \in DOMAIN f : f[i] < f[j] \/ (f[i] = f[j] /\ i <= j)

WithinTolerance_Strict(d) == d < MAX_DIFF_MINUTES

\* deltas_start.loc[deltas_start.idxmin()] <= MAX_DIFF_MINUTES
WithinTolerance(d) == d <= MAX_DIFF_MINUTES

\* np.where(np.diff(precip) < 0): positions k with precip[k+1] < precip[k];
\* a comparison with NaN is false
Backwards(f) ==
    {k \in 1..(Len(f) - 1) :
        /\ IsFinite(f[k].precip) /\ IsFinite(f[k + 1].precip)
        /\ f[k + 1].precip - f[k].precip < 0}

SingleBackward_AtLeastOne(nb) == nb >= 1

\* elif num_backwards == 1
SingleBackward(nb) == nb = 1

IsDailyReset_AnyToMidnight(h1, h2) == h2 = 0 \/ (h1 = 0 /\ h2 = 1)

\* the two local-hour transitions of a daily counter reset
IsDailyReset(h1, h2) == (h1 = 23 /\ h2 = 0) \/ (h1 = 0 /\ h2 = 1)

Rebase_FromStepOn(f, k) ==
    [i \in DOMAIN f |->
        IF i >= k THEN [f[i] EXCEPT !.precip = FAdd(f[i].precip, f[k].precip)]
        ELSE f[i]]

\* filtered_df['precip'][k+1:] = filtered_df['precip'][k+1:] + precip[k]
Rebase(f, k) ==
    [i \in DOMAIN f |->
        IF i >= k + 1 THEN [f[i] EXCEPT !.precip = FAdd(f[i].precip, f[k].precip)]
        ELSE f[i]]

\* positions of the window slice in data: data.loc[idxmin(start):idxmin(end)]
SliceFrom(end_dt, data, window) ==
    IdxMin([i \in DOMAIN data |-> Abs((end_dt - window) - data[i].dateutc)])
SliceTo(end_dt, data) ==
    IdxMin([i \in DOMAIN data |-> Abs(end_dt - data[i].dateutc)])

\* data_calc_qc(end_dt, data, counts, window): the value returned, the key of
\* counts that is incremented, and data after the call (filtered_df is a view
\* of data, so the rebase of the slice is written through to data)
DataCalcQC(end_dt, data, window) ==
    LET lo == SliceFrom(end_dt, data, window)
        hi == SliceTo(end_dt, data)
        d == Abs((end_dt - window) - data[lo].dateutc)
    IN IF ~WithinTolerance(d)
       THEN [val |-> NaN, count |-> "too_old", data |-> data]
       ELSE
         LET f == SubSeq(data, lo, hi)
             idx == Backwards(f)
             num_backwards == Cardinality(idx)
             precip_amount == Round2(FSub(f[Len(f)].precip, f[1].precip))
         IN IF ~IsFinite(precip_amount)
            THEN [val |-> NaN, count |-> "not_numeric", data |-> data]
            ELSE IF num_backwards = 0
            THEN [val |-> precip_amount, count |-> "passed", data |-> data]
            ELSE IF SingleBackward(num_backwards)
            THEN LET k == CHOOSE j \in idx : \A j2 \in idx : j <= j2
                 IN IF IsDailyReset(f[k].localhour, f[k + 1].localhour)
                    THEN LET g == Rebase(f, k)
                         IN [val |-> FSub(g[Len(g)].precip, g[1].precip),
                             count |-> "passed",
                             data |-> [i \in DOMAIN data |->
                                          IF i >= lo /\ i <= hi
                                          THEN g[i - lo + 1] ELSE data[i]]]
                    ELSE [val |-> NaN, count |-> "too_many_backwards",
                          data |-> data]
            ELSE [val |-> NaN, count |-> "too_many_backwards", data |-> data]

\* create_tile_output, lines 133-135: the next window of the loop, for a
\* site that passed the age test of line 127
CreateTileOutputWindow ==
    /\ Len(qc_out) < Len(Windows)
    /\ LET window == Windows[Len(qc_out) + 1]
           end_dt == qc_data[Len(qc_data)].dateutc
           r == DataCalcQC(end_dt, qc_data, window)
       IN /\ qc_arg' = qc_data
          /\ qc_data0' = qc_data0
          /\ qc_data' = r.data
          /\ qc_out' = Append(qc_out, r.val)
          /\ counts' = [counts EXCEPT ![r.count] = @ + 1]
    /\ UNCHANGED mainvars
    /\ UNCHANGED schedvars

CountsInit(n) ==
    [k \in {"total", "not_numeric", "too_many_backwards", "too_old", "passed"} |->
        IF k = "total" THEN n ELSE 0]

\* local hours advance with time: positions into HourVals never decrease
HourSeqs(n) ==
    {h \in [1..n -> 1..Len(HourVals)] : \A i \in 1..(n - 1) : h[i] <= h[i + 1]}

\* the orchestrator's scheduler is not looked at
SchedIdle ==
    /\ cron_pc = [at |-> "off", job |-> 0, lqh |-> 0]
    /\ clock = 0
    /\ next_run = <<>>
    /\ running = {}
    /\ log = <<>>

InitMain ==
    /\ pc = "idle"
    /\ ncycles = 0
    /\ dt = 0
    /\ urls = <<>>
    /\ xvals = <<>>
    /\ yvals = <<>>
    /\ full_res = <<>>
    /\ attempt = 0
    /\ todo = {}
    /\ store = [t \in (x_start..x_end) \X (y_start..y_end) |-> <<>>]
    /\ master_db = <<>>
    /\ outcome = [t \in (x_start..x_end) \X (y_start..y_end) |-> "pending"]
    /\ store0 = store
    /\ tasks = <<>>
    /\ delay = InitialDelay
    /\ sleeps = <<>>
    /\ created = {}
    /\ raised = "none"
    /\ now = 0
    /\ latest_obs = [rows |-> <<>>, whole |-> TRUE]
    /\ seen = latest_obs
    /\ files = {}
    /\ driver_rc = 0
    /\ backfills = 0
    /\ SchedIdle

(***************************************************************************)
(* download_async.py                                                       *)
(***************************************************************************)
Tiles == (x_start..x_end) \X (y_start..y_end)

\* pd.to_datetime(dt).floor('15T')
Floor15(t) == t - (t % 15)

\* purge_dt = dt - timedelta(hours=PURGE_HOURS)
PurgeDt(t) == t - PURGE_HOURS * 60

\* the url list of download_data: one url per tile, x outermost; a url is
\* identified by the x= and y= of its query string (its time= part is the
\* same for every url of a cycle)
RECURSIVE UrlsFrom(_, _)
UrlsFrom(x, y) ==
    IF x > x_end THEN <<>>
    ELSE IF y > y_end THEN UrlsFrom(x + 1, y_start)
    ELSE <<[x |-> x, y |-> y]>> \o UrlsFrom(x, y + 1)

\* one feature of a response body: the station of tile (x, y) reporting at ts
\* (a daily counter, and the local hour of the report)
Feature(x, y, ts) ==
    [id |-> x * 1000 + y,
     geometry |-> [coordinates |-> <<x, y>>],
     properties |-> [dateutc |-> ts,
                     dailyrainin |-> 10 * ((ts % 1440) \div 15),
                     localhour |-> (ts \div 60) % 24]]

\* the body the server returns for a url: a JSON object with the reports of
\* the tile's station in the two 15-minute windows of the query, time_string2
\* and time_string
Html(u, t) ==
    [form |-> "object",
     data |-> [features |-> <<Feature(u.x, u.y, Floor15(t) - 14),
                              Feature(u.x, u.y, Floor15(t) + 1)>>]]

\* a record without one of its fields
Without(r, key) == [k \in (DOMAIN r) \ {key} |-> r[k]]

\* bodies of status 200 that are not what parse_info_tiles expects: text that
\* is not JSON, a JSON array, an object without 'features', a second feature
\* without 'id', and a second feature without 'dailyrainin'
Malformed(r, u, t) ==
    LET ok == Html(u, t)
        f1 == ok.data.features[1]
        f2 == ok.data.features[2]
    IN IF r = "notjson" THEN [form |-> "text", data |-> <<>>]
       ELSE IF r = "array" THEN [form |-> "array", data |-> <<>>]
       ELSE IF r = "nofeatures" THEN [form |-> "object", data |-> [type |-> 0]]
       ELSE IF r = "noid" THEN
            [form |-> "object",
             data |-> [features |-> <<f1, Without(f2, "id")>>]]
       ELSE [form |-> "object",
             data |-> [features |->
                         <<f1, [f2 EXCEPT !.properties =
                                    Without(@, "dailyrainin")]>>]]

MalformedAnswers == {"notjson", "array", "nofeatures", "noid", "norain"}

CreateTasks_FirstTile(us) ==
    [xvals |-> [i \in DOMAIN us |-> us[1].x],
     yvals |-> [i \in DOMAIN us |-> us[1].y]]

\* create_tasks: the x and y of every url, in order
CreateTasks(us) ==
    [xvals |-> [i \in DOMAIN us |-> us[i].x],
     yvals |-> [i \in DOMAIN us |-> us[i].y]]

\* the elements of s at the positions in keep, in order
RECURSIVE Keep(_, _, _)
Keep(s, keep, i) ==
    IF i > Len(s) THEN <<>>
    ELSE IF i \in keep THEN <<s[i]>> \o Keep(s, keep, i + 1)
    ELSE Keep(s, keep, i + 1)

\* the classification of one gathered result by its type
Classify(item) ==
    IF item.kind = "ClientConnectorError" THEN "retry"
    ELSE IF item.kind = "ClientResponseError" THEN "bad"
    ELSE "good"

\* what gather(return_exceptions=True) yields for a task that ended with r:
\* the text of a 200 response, or the exception the task ended with.  A task
\* cancelled by the attempt's timeout yields a CancelledError when it is
\* gathered again.  url names the request the element came from, and late
\* says that its task is one a timed-out attempt left behind.
Gathered(u, r, t, late) ==
    IF r = "ok"
    THEN [kind |-> "text", html |-> Html(u, t), url |-> u, late |-> late]
    ELSE IF r \in MalformedAnswers
    THEN [kind |-> "text", html |-> Malformed(r, u, t), url |-> u, late |-> late]
    ELSE IF r = "conn"
    THEN [kind |-> "ClientConnectorError", url |-> u, late |-> late]
    ELSE IF r = "resp"
    THEN [kind |-> "ClientResponseError", url |-> u, late |-> late]
    ELSE IF r = "cancelled"
    THEN [kind |-> "CancelledError", url |-> u, late |-> late]
    ELSE [kind |-> "ServerDisconnectedError", url |-> u, late |-> late]

EmptyDict ==
    [siteid |-> <<>>, lon |-> <<>>, lat |-> <<>>, dateutc |-> <<>>,
     precip |-> <<>>, localhour |-> <<>>]

\* the loop over data['features'], lines 226-234: data_dict after the loop,
\* which a KeyError leaves at the first key that is missing
RECURSIVE ParseFeatures(_, _)
ParseFeatures(fs, dict) ==
    IF fs = <<>> THEN dict
    ELSE LET val == Head(fs)
         IN IF "properties" \notin DOMAIN val \/ "geometry" \notin DOMAIN val
               \/ "id" \notin DOMAIN val
            THEN dict
            ELSE
              LET values == val.properties
                  d1 == [dict EXCEPT
                           !.siteid = Append(@, val.id),
                           !.lon = Append(@, val.geometry.coordinates[1]),
                           !.lat = Append(@, val.geometry.coordinates[2])]
              IN IF "dateutc" \notin DOMAIN values THEN d1
                 ELSE LET d2 == [d1 EXCEPT !.dateutc = Append(@, values.dateutc)]
                      IN IF "dailyrainin" \notin DOMAIN values THEN d2
                         ELSE LET d3 == [d2 EXCEPT !.precip =
                                                Append(@, values.dailyrainin)]
                              IN IF "localhour" \notin DOMAIN values THEN d3
                                 ELSE ParseFeatures(Tail(fs),
                                        [d3 EXCEPT !.localhour =
                                             Append(@, values.localhour)])

\* parse_info_tiles, lines 224-249: the rows of pd.DataFrame(data_dict), or
\* the exception that leaves the function.  json.loads raises TypeError for
\* an html that is not text; JSONDecodeError and KeyError are caught;
\* subscripting a JSON array with 'features' raises TypeError; columns of
\* different lengths make pd.DataFrame raise ValueError.
Parse(item) ==
    IF item.kind # "text" THEN [rows |-> <<>>, raises |-> "TypeError"]
    ELSE IF item.html.form = "text" THEN [rows |-> <<>>, raises |-> "none"]
    ELSE IF item.html.form = "array" THEN [rows |-> <<>>, raises |-> "TypeError"]
    ELSE IF "features" \notin DOMAIN item.html.data
         THEN [rows |-> <<>>, raises |-> "none"]
    ELSE LET dict == ParseFeatures(item.html.data.features, EmptyDict)
             n == Len(dict.siteid)
         IN IF \E k \in DOMAIN dict : Len(dict[k]) # n
            THEN [rows |-> <<>>, raises |-> "ValueError"]
            ELSE [rows |-> [i \in 1..n |->
                              [siteid |-> dict.siteid[i], lon |-> dict.lon[i],
                               lat |-> dict.lat[i], dateutc |-> dict.dateutc[i],
                               precip |-> dict.precip[i],
                               localhour |-> dict.localhour[i]]],
                  raises |-> "none"]

ParseMerge_BatchOnly(df, item, purge_dt) ==
    SelectSeqBy(Parse(item).rows, purge_dt)

ParseMerge_PurgeIncomingOnly(df, item, purge_dt) ==
    df \o SelectSeqBy(Parse(item).rows, purge_dt)

\* parse_info_tiles, lines 249-250: concat, then drop the rows before purge_dt
ParseMerge(df, item, purge_dt) ==
    SelectSeqBy(df \o Parse(item).rows, purge_dt)

\* zip(htmls, xvals, yvals, ...) stops at the shortest list
ZipLen == Min(Len(full_res), Min(Len(xvals), Len(yvals)))

\* the tiles the urls of us ask for
TilesOf(us) == {<<us[k].x, us[k].y>> : k \in DOMAIN us}

\* download_data up to the first fetch attempt
DownloadData(t) ==
    /\ pc = "idle"
    /\ ncycles < MaxCycles
    /\ ncycles' = ncycles + 1
    /\ dt' = t
    /\ urls' = UrlsFrom(x_start, y_start)
    /\ xvals' = CreateTasks(urls').xvals
    /\ yvals' = CreateTasks(urls').yvals
    /\ full_res' = <<>>
    /\ attempt' = 0
    /\ todo' = {}
    /\ outcome' = [tl \in Tiles |-> "pending"]
    /\ store0' = store
    /\ tasks' = <<>>
    /\ delay' = InitialDelay
    /\ sleeps' = <<>>
    /\ created' = TilesOf(urls')
    /\ raised' = "none"
    /\ pc' = "fetch"
    /\ UNCHANGED <<store, master_db, now, latest_obs, seen>>
    /\ UNCHANGED <<files, driver_rc, backfills>>
    /\ UNCHANGED qcvars
    /\ UNCHANGED schedvars

\* one iteration of the retry loop of fetch_all whose gather ends within the
\* timeout (lines 64-118, and the return of line 133 when the loop runs out);
\* answer[k] is what the k-th task ended with.  Tasks that a timed-out attempt
\* left behind are gathered again and yield what they ended with then.  The
\* branch of lines 109-114 and the try-else of lines 125-128 cannot be
\* reached: every path of the try body returns or continues.
FetchAttempt(answer) ==
    /\ pc = "fetch"
    /\ IF tasks = <<>>
       THEN \A k \in DOMAIN urls : answer[k] # "cancelled"
       ELSE answer = tasks
    /\ LET res == [k \in DOMAIN urls |->
                     Gathered(urls[k], answer[k], dt, tasks # <<>>)]
           good == {k \in DOMAIN res : Classify(res[k]) = "good"}
           bad == {k \in DOMAIN res : Classify(res[k]) = "bad"}
           retry == {k \in DOMAIN res : Classify(res[k]) = "retry"}
           again == Keep(urls, retry, 1)
       IN /\ full_res' = full_res \o Keep(res, good, 1)
          /\ attempt' = attempt + 1
          /\ outcome' = [tl \in Tiles |->
                IF \E k \in DOMAIN urls : <<urls[k].x, urls[k].y>> = tl
                THEN LET k == CHOOSE k \in DOMAIN urls :
                                  <<urls[k].x, urls[k].y>> = tl
                     IN IF k \in good
                        THEN IF res[k].kind = "text" THEN "ok" ELSE "exception"
                        ELSE IF k \in bad THEN "bad" ELSE "retry"
                ELSE outcome[tl]]
          /\ IF retry = {}
             THEN \* return full_res, xvals, yvals
                  /\ xvals' = Keep(xvals, good, 1)
                  /\ yvals' = Keep(yvals, good, 1)
                  /\ urls' = urls
                  /\ created' = {}
                  /\ sleeps' = sleeps
                  /\ pc' = "parse"
             ELSE \* urls = [urls[i] for i in retry]; create_tasks;
                  \* time.sleep(2); continue
                  /\ urls' = again
                  /\ xvals' = CreateTasks(again).xvals
                  /\ yvals' = CreateTasks(again).yvals
                  /\ created' = TilesOf(again)
                  /\ sleeps' = Append(sleeps, RetrySleep)
                  /\ pc' = IF attempt + 1 < MAX_RETRIES THEN "fetch" ELSE "parse"
    /\ tasks' = <<>>
    /\ todo' = IF pc' = "parse"
               THEN 1..Min(Len(full_res'), Min(Len(xvals'), Len(yvals')))
               ELSE {}
    /\ UNCHANGED <<ncycles, dt, store, master_db, store0, delay, raised, now,
                   latest_obs, seen>>
    /\ UNCHANGED <<files, driver_rc, backfills>>
    /\ UNCHANGED qcvars
    /\ UNCHANGED schedvars

\* one iteration of the retry loop in which async_timeout.timeout(20) expires
\* during the gather (lines 70-72 and 120-124).  The tasks that have not ended
\* are cancelled (answer[k] = "cancelled"), the others keep what they ended
\* with, and asyncio.TimeoutError is raised at line 72.  `except TimeoutError`
\* names the builtin class, which is asyncio.TimeoutError from Python 3.11 on
\* and a different class before: caught says which interpreter runs the code.
\* When it is not caught the exception leaves fetch_all and download_async.py
\* ends; run() then starts driver.py as after any download.
FetchTimeout(answer, caught) ==
    /\ pc = "fetch"
    /\ tasks = <<>>
    /\ \E k \in DOMAIN urls : answer[k] = "cancelled"
    /\ outcome' = [tl \in Tiles |->
                      IF tl \in TilesOf(urls) THEN "timeout" ELSE outcome[tl]]
    /\ attempt' = attempt + 1
    /\ created' = {}
    /\ IF caught
       THEN \* time.sleep(delay); delay *= 2; continue
            /\ tasks' = answer
            /\ sleeps' = Append(sleeps, delay)
            /\ delay' = delay * 2
            /\ raised' = raised
            /\ pc' = IF attempt + 1 < MAX_RETRIES THEN "fetch" ELSE "parse"
            /\ todo' = IF pc' = "parse" THEN 1..ZipLen ELSE {}
       ELSE /\ tasks' = <<>>
            /\ sleeps' = sleeps
            /\ delay' = delay
            /\ raised' = "fetch_all"
            /\ pc' = "parse"
            /\ todo' = {}
    /\ UNCHANGED <<ncycles, dt, urls, xvals, yvals, full_res, store, master_db,
                   store0, now, latest_obs, seen>>
    /\ UNCHANGED <<files, driver_rc, backfills>>
    /\ UNCHANGED qcvars
    /\ UNCHANGED schedvars

\* one call of parse_info_tiles by a worker of the pool.  An exception leaves
\* the tile file as it was, and is raised again by pool.starmap once the
\* other work items have run (for the tile counts here starmap puts every
\* item in a chunk of its own).
ParseInfoTiles(i) ==
    /\ pc = "parse"
    /\ i \in todo
    /\ LET tl == <<xvals[i], yvals[i]>>
       IN IF Parse(full_res[i]).raises = "none"
          THEN /\ store' = [store EXCEPT
                              ![tl] = ParseMerge(@, full_res[i], PurgeDt(dt))]
               /\ files' = files \cup {tl}
               /\ raised' = raised
          ELSE /\ store' = store
               /\ files' = files
               /\ raised' = "parse_info_tiles"
    /\ todo' = todo \ {i}
    /\ UNCHANGED <<pc, ncycles, dt, urls, xvals, yvals, full_res, attempt,
                   master_db, outcome, store0, tasks, delay, sleeps, created,
                   now, latest_obs, seen>>
    /\ UNCHANGED <<driver_rc, backfills>>
    /\ UNCHANGED qcvars
    /\ UNCHANGED schedvars

\* rows of a set in the order of sort_values(by=['siteid', 'dateutc'])
RECURSIVE SortRows(_)
SortRows(S) ==
    IF S = {} THEN <<>>
    ELSE LET m == CHOOSE r \in S : \A q \in S :
                      \/ r.siteid < q.siteid
                      \/ (r.siteid = q.siteid /\ r.dateutc <= q.dateutc)
         IN <<m>> \o SortRows(S \ {m})

\* process_data, lines 204-213: concat of the tile files, drop_duplicates on
\* whole rows, sort, drop the rows without a counter value
MergeTiles(st) ==
    SortRows({r \in UNION {{st[tl][i] : i \in DOMAIN st[tl]} : tl \in Tiles} :
                 r.precip # NaN})

\* df.siteid.unique(): the site ids of df in the order of their first rows
RECURSIVE Unique(_, _)
Unique(df, found) ==
    IF df = <<>> THEN <<>>
    ELSE IF Head(df).siteid \in found THEN Unique(Tail(df), found)
    ELSE <<Head(df).siteid>> \o Unique(Tail(df), found \cup {Head(df).siteid})

\* sort_values on dateutc of the rows of one site
RECURSIVE SortByDate(_)
SortByDate(df) ==
    IF df = <<>> THEN <<>>
    ELSE LET rest == SortByDate(Tail(df))
             before == {i \in DOMAIN rest : rest[i].dateutc < Head(df).dateutc}
         IN SubSeq(rest, 1, Cardinality(before)) \o <<Head(df)>>
            \o SubSeq(rest, Cardinality(before) + 1, Len(rest))

\* df[df.siteid == site] of the sorted df
RECURSIVE SiteData(_, _)
SiteData(df, site) ==
    IF df = <<>> THEN <<>>
    ELSE IF Head(df).siteid = site THEN <<Head(df)>> \o SiteData(Tail(df), site)
    ELSE SiteData(Tail(df), site)

Active_Strict(n, end_dt) == Abs(n - end_dt) < MAX_AGE_MINUTES

\* np.abs(now - end_dt) <= pd.to_timedelta(MAX_AGE_MINUTES, unit='minutes')
Active(n, end_dt) == Abs(n - end_dt) <= MAX_AGE_MINUTES

\* the loop of lines 133-135: the values of the windows from the k-th on,
\* each call of data_calc_qc seeing data as the calls before it left it
RECURSIVE WindowVals(_, _, _)
WindowVals(end_dt, data, k) ==
    IF k > Len(Windows) THEN <<>>
    ELSE LET r == DataCalcQC(end_dt, data, Windows[k])
         IN <<r.val>> \o WindowVals(end_dt, r.data, k + 1)

\* create_tile_output for the sites from the k-th on: one entry of
\* output_dict for every site that passes the age test
RECURSIVE SiteOutputs(_, _, _, _)
SiteOutputs(df, sites, k, n) ==
    IF k > Len(sites) THEN <<>>
    ELSE LET data == SortByDate(SiteData(df, sites[k]))
             end_dt == data[Len(data)].dateutc
         IN (IF Active(n, end_dt)
             THEN <<[siteid |-> sites[k],
                     lon |-> data[Len(data)].lon,
                     lat |-> data[Len(data)].lat,
                     latest_ob_time |-> end_dt,
                     accum |-> WindowVals(end_dt, data, 1)]>>
             ELSE <<>>)
            \o SiteOutputs(df, sites, k + 1, n)

\* create_tile_output(tilefile, now)
CreateTileOutput(df, n) == SiteOutputs(df, Unique(df, {}), 1, n)

AllUnavailable_NoneDropped(row) == FALSE

\* dropna(subset=cols, how='all'): every *_min column of the row is NaN
AllUnavailable(row) == \A k \in DOMAIN row.accum : row.accum[k] = NaN

RECURSIVE DropAllNaN(_)
DropAllNaN(rows) ==
    IF rows = <<>> THEN <<>>
    ELSE IF AllUnavailable(Head(rows)) THEN DropAllNaN(Tail(rows))
    ELSE <<Head(rows)>> \o DropAllNaN(Tail(rows))

\* the outputs of pool.map over the tile files, one after the other
RECURSIVE PoolOutputs(_, _, _, _)
PoolOutputs(st, us, k, n) ==
    IF k > Len(us) THEN <<>>
    ELSE CreateTileOutput(st[<<us[k].x, us[k].y>>], n)
         \o PoolOutputs(st, us, k + 1, n)

\* process_data, lines 172-185: output_df
OutputDf(st, n) == DropAllNaN(PoolOutputs(st, UrlsFrom(x_start, y_start), 1, n))

\* the exit status of download_async.py: nothing in it calls sys.exit, so the
\* interpreter ends with 1 after an exception nobody caught and with 0
\* otherwise
ExitStatus == IF raised = "none" THEN 0 ELSE 1

DownloadExited_NotAwaited == pc \in {"fetch", "parse"}

\* execute(): process.communicate() returns when download_async.py has ended,
\* that is when fetch_all has returned and pool.starmap has run every item
DownloadExited == pc = "parse" /\ todo = {}

RunsDriver_OnlyAfterSuccess(rc) == rc = 0

\* run(): the process that execute(arg) returns is dropped, and run_driver()
\* is called whatever returncode rc the download ended with
RunsDriver(rc) == TRUE

\* process_data from its start to the moment to_parquet (line 187) has opened
\* latest_obs.parquet for writing: the file is written in place, so until
\* to_parquet returns it is not a whole parquet file.  run() starts driver.py
\* once download_async.py has ended, however it ended.  When no tile file
\* exists output_df has no columns: pandas 2 gives it a RangeIndex, on which
\* .str raises (line 184) before the snapshot is touched; pandas 1 gives it an
\* empty object Index and process_data goes on.
ProcessData(n) ==
    /\ DownloadExited
    /\ RunsDriver(ExitStatus)
    /\ now' = n
    /\ \/ /\ files = {}
          /\ latest_obs' = latest_obs
          /\ driver_rc' = 1
          /\ pc' = "idle"
       \/ /\ latest_obs' = [rows |-> <<>>, whole |-> FALSE]
          /\ driver_rc' = driver_rc
          /\ pc' = "driver"
    /\ UNCHANGED <<ncycles, dt, urls, xvals, yvals, full_res, attempt, todo,
                   store, master_db, outcome, store0, tasks, delay, sleeps,
                   created, raised, seen>>
    /\ UNCHANGED <<files, backfills>>
    /\ UNCHANGED qcvars
    /\ UNCHANGED schedvars

\* the rest of process_data: to_parquet returns (line 187), then the merged
\* store is written (lines 204-213).  pd.concat of an empty list raises
\* ValueError (line 208): with no tile file master_db.parquet is not written
\* and driver.py ends with status 1, which run_driver() logs.
ProcessDataDone ==
    /\ pc = "driver"
    /\ latest_obs' = [rows |-> OutputDf(store, now), whole |-> TRUE]
    /\ master_db' = IF files = {} THEN master_db ELSE MergeTiles(store)
    /\ driver_rc' = IF files = {} THEN 1 ELSE 0
    /\ pc' = "idle"
    /\ UNCHANGED <<ncycles, dt, urls, xvals, yvals, full_res, attempt, todo,
                   store, outcome, store0, tasks, delay, sleeps, created,
                   raised, now, seen>>
    /\ UNCHANGED <<files, backfills>>
    /\ UNCHANGED qcvars
    /\ UNCHANGED schedvars

\* app.py, update_graph: pd.read_parquet of the snapshot, at any moment
UpdateGraph ==
    /\ seen' = latest_obs
    /\ UNCHANGED <<pc, ncycles, dt, urls, xvals, yvals, full_res, attempt, todo,
                   store, master_db, outcome, store0, tasks, delay, sleeps,
                   created, raised, now, latest_obs>>
    /\ UNCHANGED <<files, driver_rc, backfills>>
    /\ UNCHANGED qcvars
    /\ UNCHANGED schedvars

QCIdle ==
    /\ qc_data = <<>>
    /\ qc_arg = <<>>
    /\ qc_data0 = <<>>
    /\ qc_out = <<>>
    /\ counts = CountsInit(0)

Init == InitMain /\ QCIdle

\* cycles in which the server answers every request in time, with a
\* well-formed body, a failure to connect or an HTTP error status; driver.py
\* starts in the minute after the download
Next ==
    \/ \E t \in {c \in CycleTimes : c >= dt} : DownloadData(t)
    \/ \E answer \in [DOMAIN urls -> {"ok", "conn", "resp"}] : FetchAttempt(answer)
    \/ \E i \in todo : ParseInfoTiles(i)
    \/ ProcessData(dt + 1)
    \/ ProcessDataDone

Spec == Init /\ [][Next]_vars

\* one site's history, sorted by dateutc, as df[df.siteid == site] gives it
InitQC ==
    /\ InitMain
    /\ \E n \in 1..MaxObs :
       \E T \in {S \in SUBSET TimeVals : Cardinality(S) = n} :
       \E p \in [1..n -> PrecipVals] :
       \E h \in HourSeqs(n) :
            qc_data = [i \in 1..n |->
                          [dateutc |-> SortedSeq(T)[i], precip |-> p[i],
                           localhour |-> HourVals[h[i]]]]
    /\ qc_arg = qc_data
    /\ qc_data0 = qc_data
    /\ qc_out = <<>>
    /\ counts = CountsInit(Len(qc_data))

NextQC == CreateTileOutputWindow

SpecQC == InitQC /\ [][NextQC]_vars

\* download_data of the last cycle, at the call of fetch_all
InitFetch ==
    /\ pc = "fetch"
    /\ ncycles = MaxCycles
    /\ dt = 602
    /\ urls = UrlsFrom(x_start, y_start)
    /\ xvals = CreateTasks(urls).xvals
    /\ yvals = CreateTasks(urls).yvals
    /\ full_res = <<>>
    /\ attempt = 0
    /\ todo = {}
    /\ store = [t \in Tiles |-> <<>>]
    /\ master_db = <<>>
    /\ outcome = [t \in Tiles |-> "pending"]
    /\ store0 = store
    /\ tasks = <<>>
    /\ delay = InitialDelay
    /\ sleeps = <<>>
    /\ created = TilesOf(urls)
    /\ raised = "none"
    /\ now = 0
    /\ latest_obs = [rows |-> <<>>, whole |-> TRUE]
    /\ seen = latest_obs
    /\ files = {}
    /\ driver_rc = 0
    /\ backfills = 0
    /\ SchedIdle
    /\ QCIdle

\* one cycle in which a request may also end with an exception that is
\* neither of the two fetch_all tests for, and an attempt may time out
NextFetch ==
    \/ \E answer \in [DOMAIN urls -> {"ok", "conn", "resp", "other", "cancelled"}] :
          FetchAttempt(answer)
    \/ \E answer \in [DOMAIN urls -> {"ok", "conn", "cancelled"}] :
       \E caught \in BOOLEAN : FetchTimeout(answer, caught)
    \/ \E i \in todo : ParseInfoTiles(i)
    \/ ProcessData(dt + 1)
    \/ ProcessDataDone

SpecFetch == InitFetch /\ [][NextFetch]_vars

\* one cycle in which every request is answered 200 at once, with a body
\* that may be malformed
NextParse ==
    \/ \E answer \in [DOMAIN urls -> {"ok"} \cup MalformedAnswers] :
          FetchAttempt(answer)
    \/ \E i \in todo : ParseInfoTiles(i)
    \/ ProcessData(dt + 1)
    \/ ProcessDataDone

\* the rows parse_info_tiles reads from the well-formed body of tile tl at t
RowsAt(tl, t) == Parse(Gathered([x |-> tl[1], y |-> tl[2]], "ok", t, FALSE)).rows

\* what a tile file may hold when a cycle starts long after the tile was
\* last stored: nothing, or the rows of two cycles half an hour apart, the
\* last of which is not older than PURGE_HOURS
OldRows(tl) == {<<>>, RowsAt(tl, 602) \o RowsAt(tl, 602 + 30)}

\* download_data at the call of fetch_all, PURGE_HOURS and a quarter of an
\* hour after the cycle of 602
InitParse ==
    /\ pc = "fetch"
    /\ ncycles = MaxCycles
    /\ dt = 602 + PURGE_HOURS * 60 + 15
    /\ urls = UrlsFrom(x_start, y_start)
    /\ xvals = CreateTasks(urls).xvals
    /\ yvals = CreateTasks(urls).yvals
    /\ full_res = <<>>
    /\ attempt = 0
    /\ todo = {}
    /\ store \in {st \in [Tiles -> UNION {OldRows(tl) : tl \in Tiles}] :
                     \A tl \in Tiles : st[tl] \in OldRows(tl)}
    /\ master_db = <<>>
    /\ outcome = [t \in Tiles |-> "pending"]
    /\ store0 = store
    /\ tasks = <<>>
    /\ delay = InitialDelay
    /\ sleeps = <<>>
    /\ created = TilesOf(urls)
    /\ raised = "none"
    /\ now = 0
    /\ latest_obs = [rows |-> <<>>, whole |-> TRUE]
    /\ seen = latest_obs
    /\ files = {tl \in Tiles : store[tl] # <<>>}
    /\ driver_rc = 0
    /\ backfills = 0
    /\ SchedIdle
    /\ QCIdle

SpecParse == InitParse /\ [][NextParse]_vars

\* rows of one station as a tile file holds them; a null dailyrainin is NaN
Row(site, ts, p) ==
    [siteid |-> site, lon |-> site \div 1000, lat |-> site % 1000,
     dateutc |-> ts, precip |-> p, localhour |-> (ts \div 60) % 24]

\* what a tile file may hold when driver.py starts: nothing, or the reports of
\* one of two stations (fetch_all may hand a body to parse_info_tiles under
\* the x and y of another tile): two reports, two reports the later of which
\* has no counter value, or one report
SnapBodies ==
    {<<>>} \cup
    UNION {{<<Row(site, 655, 50), Row(site, 670, 100)>>,
            <<Row(site, 655, 50), Row(site, 670, NaN)>>,
            <<Row(site, 670, 100)>>} :
           site \in {x_start * 1000 + y_start, (x_start + 1) * 1000 + y_start}}

\* the download has ended and run() starts driver.py; the snapshot of an
\* earlier cycle is on disk and the app has read it
InitSnap ==
    /\ pc = "parse"
    /\ ncycles = MaxCycles
    /\ dt = 662
    /\ urls = <<>>
    /\ xvals = <<>>
    /\ yvals = <<>>
    /\ full_res = <<>>
    /\ attempt = 1
    /\ todo = {}
    /\ store \in [Tiles -> SnapBodies]
    /\ master_db = <<>>
    /\ outcome = [t \in Tiles |-> "pending"]
    /\ store0 = store
    /\ tasks = <<>>
    /\ delay = InitialDelay
    /\ sleeps = <<>>
    /\ created = {}
    /\ raised = "none"
    /\ now = 0
    /\ latest_obs = [rows |-> <<>>, whole |-> TRUE]
    /\ seen = latest_obs
    /\ files = {tl \in Tiles : store[tl] # <<>>}
    /\ driver_rc = 0
    /\ backfills = 0
    /\ SchedIdle
    /\ QCIdle

NextSnap ==
    \/ \E n \in NowVals : ProcessData(n)
    \/ ProcessDataDone
    \/ UpdateGraph

SpecSnap == InitSnap /\ [][NextSnap]_vars

\* run_realtime.py has just been started on a machine that holds no tile
\* file and no snapshot
InitCron ==
    /\ pc = "start"
    /\ ncycles = 0
    /\ dt = 0
    /\ urls = <<>>
    /\ xvals = <<>>
    /\ yvals = <<>>
    /\ full_res = <<>>
    /\ attempt = 0
    /\ todo = {}
    /\ store = [t \in Tiles |-> <<>>]
    /\ master_db = <<>>
    /\ outcome = [t \in Tiles |-> "pending"]
    /\ store0 = store
    /\ tasks = <<>>
    /\ delay = InitialDelay
    /\ sleeps = <<>>
    /\ created = {}
    /\ raised = "none"
    /\ now = 0
    /\ latest_obs = [rows |-> <<>>, whole |-> TRUE]
    /\ seen = latest_obs
    /\ files = {}
    /\ driver_rc = 0
    /\ backfills = 0
    /\ SchedIdle
    /\ QCIdle

\* __main__ (lines 96-101): freeze_support(), then run_crons().  The calls of
\* check_if_dbinit_needed() and initialize_data() are comments (lines 98-100),
\* so no download_async.py -t process is run.
Main ==
    /\ pc = "start"
    /\ pc' = "idle"
    /\ backfills' = backfills
    /\ UNCHANGED <<ncycles, dt, urls, xvals, yvals, full_res, attempt, todo,
                   store, master_db, outcome, store0, tasks, delay, sleeps,
                   created, raised, now, latest_obs, seen, files, driver_rc>>
    /\ UNCHANGED qcvars
    /\ UNCHANGED schedvars

\* schedule: the time the next job is due, the first cycle time after the
\* last run
NextRun ==
    LET later == {c \in CycleTimes : c > dt}
    IN IF later = {} THEN dt ELSE CHOOSE c \in later : \A d \in later : c <= d

\* the orchestrator from its start: run_crons() calls run() at the scheduled
\* minutes; a request is answered with a well-formed body or ends with an
\* exception fetch_all does not test for
NextCron ==
    \/ Main
    \/ DownloadData(NextRun)
    \/ \E answer \in [DOMAIN urls -> {"ok", "other"}] : FetchAttempt(answer)
    \/ \E i \in todo : ParseInfoTiles(i)
    \/ ProcessData(dt + 1)
    \/ ProcessDataDone

\* `while True: task.run_pending(); time.sleep(1)` goes on for ever, and
\* every process run() starts ends: a step that can be taken is taken, and
\* driver.py, once started, does not run for ever
FairCron ==
    /\ WF_vars(Main)
    /\ WF_vars(DownloadData(NextRun))
    /\ WF_vars(\E answer \in [DOMAIN urls -> {"ok", "other"}] : FetchAttempt(answer))
    /\ WF_vars(\E i \in todo : ParseInfoTiles(i))
    /\ WF_vars(ProcessData(dt + 1))
    /\ []<>(pc # "driver")

SpecCron == InitCron /\ [][NextCron]_vars /\ FairCron

(***************************************************************************)
(* run_realtime.py: the scheduler and the subprocesses it starts           *)
(***************************************************************************)
\* the time of day at which clock is 0, in minutes: 09:50
StartTime == 9 * 60 + 50

\* run_crons, lines 63-70: the minute of the hour of every job
JobMinutes == <<2, 10, 17, 25, 32, 40, 47, 55>>

BackMinutes_ThroughZero == <<60, 45, 30, 15, 0>>

\* initialize_data: range(60, 0, -15)
BackMinutes == <<60, 45, 30, 15>>

\* dt.strftime('%Y-%m-%d/%H%M') of a time in minutes
Datestring(t) ==
    [day |-> t \div 1440, hhmm |-> ((t % 1440) \div 60) * 100 + (t % 60)]

\* download_async.py: datetime.strptime(args.time_string, '%Y-%m-%d/%H%M')
Strptime(d) == d.day * 1440 + (d.hhmm \div 100) * 60 + (d.hhmm % 100)

Communicated_NoWait(p) == TRUE

\* execute(): process.communicate() returns when the process has ended
Communicated(p) == p \notin running

\* execute(): subprocess.Popen(arg, shell=True, ...)
Popen(cmd, arg) ==
    /\ log' = Append(log, [cmd |-> cmd, arg |-> arg, at |-> clock])
    /\ running' = running \cup {Len(log) + 1}

\* a minute passes, whatever the orchestrator and the subprocesses do
Tick ==
    /\ clock < MaxClock
    /\ clock' = clock + 1
    /\ UNCHANGED <<cron_pc, next_run, running, log, backfills>>
    /\ UNCHANGED cyclevars
    /\ UNCHANGED qcvars

\* a subprocess ends
Exit(p) ==
    /\ p \in running
    /\ running' = running \ {p}
    /\ UNCHANGED <<cron_pc, clock, next_run, log, backfills>>
    /\ UNCHANGED cyclevars
    /\ UNCHANGED qcvars

\* run_crons: task.run_pending() finds job j due (next_run <= now; of the
\* jobs that are due the one with the earliest next_run comes first) and
\* calls run(), which calls execute() for download_async.py
RunPending(j) ==
    /\ cron_pc.at = "loop"
    /\ next_run[j] <= clock
    /\ \A i \in DOMAIN next_run : next_run[j] <= next_run[i]
    /\ Popen("download_async.py", "")
    /\ cron_pc' = [cron_pc EXCEPT !.at = "run_download", !.job = j]
    /\ UNCHANGED <<clock, next_run, backfills>>
    /\ UNCHANGED cyclevars
    /\ UNCHANGED qcvars

\* run(): execute() has returned; run_driver() calls execute() for driver.py
RunDriver ==
    /\ cron_pc.at = "run_download"
    /\ Communicated(Len(log))
    /\ Popen("driver.py", "")
    /\ cron_pc' = [cron_pc EXCEPT !.at = "run_driver"]
    /\ UNCHANGED <<clock, next_run, backfills>>
    /\ UNCHANGED cyclevars
    /\ UNCHANGED qcvars

\* run_driver() and run() return; schedule sets the job's next_run to its
\* minute of the first hour that has not passed it yet
RunReturns ==
    /\ cron_pc.at = "run_driver"
    /\ Communicated(Len(log))
    /\ LET j == cron_pc.job
           m == JobMinutes[j]
       IN next_run' = [next_run EXCEPT
                          ![j] = IF clock < m THEN m
                                 ELSE m + 60 * ((clock - m) \div 60 + 1)]
    /\ cron_pc' = [cron_pc EXCEPT !.at = "loop", !.job = 0]
    /\ UNCHANGED <<clock, running, log, backfills>>
    /\ UNCHANGED cyclevars
    /\ UNCHANGED qcvars

\* initialize_data, lines 53-57: the next pass of the loop over back_minutes
InitExecute ==
    /\ cron_pc.at = "init"
    /\ cron_pc.job <= Len(BackMinutes)
    /\ Popen("download_async.py",
             Datestring(cron_pc.lqh - BackMinutes[cron_pc.job]))
    /\ backfills' = backfills + 1
    /\ cron_pc' = [cron_pc EXCEPT !.at = "init_download"]
    /\ UNCHANGED <<clock, next_run>>
    /\ UNCHANGED cyclevars
    /\ UNCHANGED qcvars

\* initialize_data: execute() of line 57 has returned
InitExecuted ==
    /\ cron_pc.at = "init_download"
    /\ Communicated(Len(log))
    /\ cron_pc' = [cron_pc EXCEPT !.at = "init", !.job = @ + 1]
    /\ UNCHANGED <<clock, next_run, running, log, backfills>>
    /\ UNCHANGED cyclevars
    /\ UNCHANGED qcvars

\* initialize_data, line 59: run_driver() after the loop
InitRunDriver ==
    /\ cron_pc.at = "init"
    /\ cron_pc.job > Len(BackMinutes)
    /\ Popen("driver.py", "")
    /\ cron_pc' = [cron_pc EXCEPT !.at = "init_driver"]
    /\ UNCHANGED <<clock, next_run, backfills>>
    /\ UNCHANGED cyclevars
    /\ UNCHANGED qcvars

\* run_driver() and initialize_data() return
InitReturns ==
    /\ cron_pc.at = "init_driver"
    /\ Communicated(Len(log))
    /\ cron_pc' = [cron_pc EXCEPT !.at = "done"]
    /\ UNCHANGED <<clock, next_run, running, log, backfills>>
    /\ UNCHANGED cyclevars
    /\ UNCHANGED qcvars

\* the files and the download cycle as they are before anything has run
CycleIdle ==
    /\ pc = "idle"
    /\ ncycles = 0
    /\ dt = 0
    /\ urls = <<>>
    /\ xvals = <<>>
    /\ yvals = <<>>
    /\ full_res = <<>>
    /\ attempt = 0
    /\ todo = {}
    /\ store = [t \in Tiles |-> <<>>]
    /\ master_db = <<>>
    /\ outcome = [t \in Tiles |-> "pending"]
    /\ store0 = store
    /\ tasks = <<>>
    /\ delay = InitialDelay
    /\ sleeps = <<>>
    /\ created = {}
    /\ raised = "none"
    /\ now = 0
    /\ latest_obs = [rows |-> <<>>, whole |-> TRUE]
    /\ seen = latest_obs
    /\ files = {}
    /\ driver_rc = 0
    /\ QCIdle

\* run_crons has scheduled its jobs, at the start of an hour, and enters its
\* loop
InitSched ==
    /\ CycleIdle
    /\ backfills = 0
    /\ cron_pc = [at |-> "loop", job |-> 0, lqh |-> 0]
    /\ clock = 0
    /\ next_run = JobMinutes
    /\ running = {}
    /\ log = <<>>

NextSched ==
    \/ Tick
    \/ \E p \in running : Exit(p)
    \/ \E j \in DOMAIN next_run : RunPending(j)
    \/ RunDriver
    \/ RunReturns

\* `while True: task.run_pending(); time.sleep(1)` goes on for ever and the
\* subprocesses end
FairSched ==
    /\ WF_vars(\E p \in running : Exit(p))
    /\ WF_vars(\E j \in DOMAIN next_run : RunPending(j))
    /\ WF_vars(RunDriver)
    /\ WF_vars(RunReturns)

SpecSched == InitSched /\ [][NextSched]_vars /\ FairSched

\* initialize_data is called, lines 50-51: now = datetime.utcnow() and
\* latest_quarter_hour = pd.to_datetime(now).floor('15T')
InitInit ==
    /\ CycleIdle
    /\ backfills = 0
    /\ clock \in 0..(MaxClock - 1)
    /\ cron_pc = [at |-> "init", job |-> 1, lqh |-> Floor15(StartTime + clock)]
    /\ next_run = <<>>
    /\ running = {}
    /\ log = <<>>

NextInit ==
    \/ Tick
    \/ \E p \in running : Exit(p)
    \/ InitExecute
    \/ InitExecuted
    \/ InitRunDriver
    \/ InitReturns

SpecInit == InitInit /\ [][NextInit]_vars

(***************************************************************************)
(* Properties of the download cycle (specification Spec)                   *)
(***************************************************************************)
\* a cycle has run to its end: download_async.py and driver.py have exited
CycleDone == pc = "idle" /\ ncycles > 0

\* the pool's work items that have run
Processed == IF pc = "parse" \/ CycleDone THEN (1..ZipLen) \ todo ELSE {}

\* the file of tile tl after a cycle in which only the tiles the server
\* answered with a body were merged, each with its own body
Expected(tl) ==
    IF outcome[tl] = "ok"
    THEN ParseMerge(store0[tl],
                    [kind |-> "text", html |-> Html([x |-> tl[1], y |-> tl[2]], dt)],
                    PurgeDt(dt))
    ELSE store0[tl]

\* C1: after a fetch cycle, every tile whose request succeeded (at once or on
\* a retry) has its own observations merged into its own store, and the store
\* of every other tile is as it was.
C1_SuccessfulTilesStored ==
    CycleDone => \A tl \in Tiles : store[tl] = Expected(tl)

\* C2: a tile that fails transiently on all MAX_RETRIES attempts gains no
\* record in the cycle, while the tiles that did succeed are stored.
C2_ExhaustedTileContributesNothing ==
    CycleDone =>
        \A tl \in Tiles :
            outcome[tl] = "retry" =>
                /\ store[tl] = store0[tl]
                /\ \A u \in Tiles : outcome[u] = "ok" => store[u] = Expected(u)

NoDupKeys(s) ==
    \A i, j \in DOMAIN s :
        i # j => <<s[i].siteid, s[i].dateutc>> # <<s[j].siteid, s[j].dateutc>>

\* C3: after any sequence of cycles no store, per-tile or merged, holds two
\* records with equal (siteid, timestamp).
C3_NoDuplicateKeys ==
    /\ \A tl \in Tiles : NoDupKeys(store[tl])
    /\ NoDupKeys(master_db)

\* C4: merging the batch a worker has just merged into a tile store once more,
\* with the same purge_before, leaves the store as it is.
C4_MergeIdempotent ==
    \A i \in Processed :
        LET tl == <<xvals[i], yvals[i]>>
        IN ParseMerge(store[tl], full_res[i], PurgeDt(dt)) = store[tl]

\* C5: once parse_info_tiles has merged a batch into a tile store, every
\* record of that store, old or new, has timestamp >= purge_dt.
C5_MergedStorePurged ==
    \A i \in Processed :
        LET tl == <<xvals[i], yvals[i]>>
        IN \A j \in DOMAIN store[tl] : store[tl][j].dateutc >= PurgeDt(dt)

\* a merge that dropped records of the existing file and kept incoming ones
C5_Witness ==
    \E i \in Processed :
        LET tl == <<xvals[i], yvals[i]>>
        IN /\ \E j \in DOMAIN store0[tl] : store0[tl][j].dateutc < PurgeDt(dt)
           /\ store[tl] # <<>>

(***************************************************************************)
(* Properties of data_calc_qc (specification SpecQC)                       *)
(***************************************************************************)
\* the last call: its window, its end_dt, its result and its window slice
QcCalled == Len(qc_out) > 0
QcWindow == Windows[Len(qc_out)]
QcVal == qc_out[Len(qc_out)]
QcEnd == qc_arg[Len(qc_arg)].dateutc
QcSlice ==
    SubSeq(qc_arg, SliceFrom(QcEnd, qc_arg, QcWindow), SliceTo(QcEnd, qc_arg))

\* distance in time from start = end - w to the observation nearest to it
NearestDist(data, w) ==
    LET start == data[Len(data)].dateutc - w
        ds == {Abs(start - data[i].dateutc) : i \in DOMAIN data}
    IN CHOOSE d \in ds : \A e \in ds : d <= e

QcInTolerance == QcCalled /\ NearestDist(qc_arg, QcWindow) <= MAX_DIFF_MINUTES

AllFinite(f) == \A i \in DOMAIN f : f[i].precip # NaN

NonDecreasing(f) ==
    \A i \in 1..(Len(f) - 1) : f[i].precip <= f[i + 1].precip

\* the slice has exactly one negative step, at position k, with finite ends
OneStepAt(f, k) ==
    /\ Backwards(f) = {k}
    /\ f[1].precip # NaN /\ f[Len(f)].precip # NaN

ResetHours(f, k) ==
    \/ f[k].localhour = 23 /\ f[k + 1].localhour = 0
    \/ f[k].localhour = 0 /\ f[k + 1].localhour = 1

\* C6: a slice with exactly one negative step, bracketed by local hours 23, 0
\* or 0, 1: the pre-reset value is added to every counter value after the
\* step, and the result is last minus first of the rebased series.
C6_ResetCorrection ==
    QcInTolerance =>
        \A k \in 1..(Len(QcSlice) - 1) :
            OneStepAt(QcSlice, k) /\ ResetHours(QcSlice, k) =>
                LET f == QcSlice
                    lo == Len(qc_arg) - Len(f)
                IN /\ QcVal = (f[Len(f)].precip + f[k].precip) - f[1].precip
                   /\ \A i \in DOMAIN qc_arg :
                        qc_data[i].precip =
                            IF i > lo + k
                            THEN FAdd(qc_arg[i].precip, f[k].precip)
                            ELSE qc_arg[i].precip

\* counters 0.10, 0.20, 0.05, 0.152 with local hours 23, 23, 0, 0 as one
\* window slice: (0.20 + 0.152) - 0.10 = 0.252
C6_Witness ==
    /\ QcInTolerance
    /\ Len(QcSlice) = 4
    /\ [i \in 1..4 |-> QcSlice[i].precip] = <<100, 200, 50, 152>>
    /\ [i \in 1..4 |-> QcSlice[i].localhour] = <<23, 23, 0, 0>>
    /\ QcVal = 252

\* C7: a slice of finite, non-decreasing counter values gives last minus
\* first, rounded to 2 decimals.
C7_MonotonicWindow ==
    QcInTolerance /\ AllFinite(QcSlice) /\ NonDecreasing(QcSlice) =>
        LET diff == QcSlice[Len(QcSlice)].precip - QcSlice[1].precip
            q == diff \div 10
        IN /\ QcVal \in {q * 10, (q + 1) * 10}
           /\ 2 * Abs(QcVal - diff) <= 10
           /\ (2 * Abs(QcVal - diff) = 10 => (QcVal \div 10) % 2 = 0)

\* a monotonic slice whose difference is not a whole number of hundredths
C7_Witness ==
    /\ QcInTolerance /\ AllFinite(QcSlice) /\ NonDecreasing(QcSlice)
    /\ QcVal # NaN
    /\ QcVal # QcSlice[Len(QcSlice)].precip - QcSlice[1].precip

\* C8: a window whose nearest-to-start observation is farther than
\* MAX_DIFF_MINUTES from start is unavailable; one exactly MAX_DIFF_MINUTES
\* away is within tolerance (its monotonic slice gives a value).
C8_ToleranceCheck ==
    QcCalled =>
        /\ NearestDist(qc_arg, QcWindow) > MAX_DIFF_MINUTES => QcVal = NaN
        /\ (/\ NearestDist(qc_arg, QcWindow) = MAX_DIFF_MINUTES
            /\ AllFinite(QcSlice) /\ NonDecreasing(QcSlice)) => QcVal # NaN

\* the first window was exactly MAX_DIFF_MINUTES off and gave a value, the
\* second was farther off and gave none
C8_Witness ==
    /\ Len(qc_out) = 2
    /\ NearestDist(qc_arg, Windows[1]) = MAX_DIFF_MINUTES
    /\ qc_out[1] # NaN
    /\ NearestDist(qc_arg, Windows[2]) > MAX_DIFF_MINUTES
    /\ qc_out[2] = NaN

\* C9: a slice with two or more negative steps is unavailable, whatever the
\* local hours at the steps.
C9_MultipleResets ==
    QcInTolerance /\ Cardinality(Backwards(QcSlice)) >= 2 => QcVal = NaN

\* two negative steps, the first of them at a 23 -> 0 transition
C9_Witness ==
    /\ QcInTolerance
    /\ Cardinality(Backwards(QcSlice)) >= 2
    /\ \E k \in Backwards(QcSlice) : ResetHours(QcSlice, k)
    /\ QcSlice[1].precip # NaN /\ QcSlice[Len(QcSlice)].precip # NaN
    /\ QcVal = NaN

\* C10: a slice with exactly one negative step whose bracketing local hours
\* are neither 23, 0 nor 0, 1 is unavailable.
C10_OtherHourUnavailable ==
    QcInTolerance =>
        \A k \in 1..(Len(QcSlice) - 1) :
            Backwards(QcSlice) = {k} /\ ~ResetHours(QcSlice, k) => QcVal = NaN

\* one negative step between two reports of local hour 0
C10_Witness ==
    /\ QcInTolerance
    /\ \E k \in 1..(Len(QcSlice) - 1) :
          /\ OneStepAt(QcSlice, k)
          /\ QcSlice[k].localhour = 0 /\ QcSlice[k + 1].localhour = 0
    /\ QcVal = NaN

(***************************************************************************)
(* Properties of fetch_all (specification SpecFetch)                       *)
(***************************************************************************)
\* a step of the retry loop: one attempt, with what follows it
Round == pc = "fetch" /\ attempt' = attempt + 1

\* how many elements of res came from the request for tile tl
BodiesOf(res, tl) ==
    Cardinality({k \in DOMAIN res : <<res[k].url.x, res[k].url.y>> = tl})

\* C11: every round issues again exactly the requests that failed transiently
\* in it (connection error, other exception, timeout); one that succeeded or
\* got an HTTP error status is never issued again, and no url contributes
\* more than one element to the returned list.
C11_ReissueExactlyTransient ==
    [][Round =>
         \A tl \in Tiles :
            /\ tl \in created' <=>
                   (tl \in TilesOf(urls)
                    /\ outcome'[tl] \in {"retry", "exception", "timeout"})
            /\ outcome[tl] \in {"ok", "bad"} => tl \notin created'
            /\ BodiesOf(full_res', tl) <= 1]_vars

\* C12: fetch_all never raises, makes at most MAX_RETRIES attempts, and goes
\* on to another attempt only if the last one left transient failures.
C12_FetchAllReturns ==
    /\ raised # "fetch_all"
    /\ attempt <= MAX_RETRIES
    /\ pc = "fetch" =>
          /\ attempt < MAX_RETRIES
          /\ attempt > 0 =>
                \E tl \in Tiles : outcome[tl] \in {"retry", "timeout"}

\* C13: after an attempt that timed out, every request of that attempt has
\* been issued again for the next attempt, and no element of the list
\* fetch_all builds comes from a task of the timed-out attempt.
C13_TimeoutIsAllTransient ==
    /\ (pc = "fetch" /\ \E tl \in Tiles : outcome[tl] = "timeout") =>
            created = TilesOf(urls)
    /\ \A k \in DOMAIN full_res : ~full_res[k].late

\* 2^n
RECURSIVE Pow2(_)
Pow2(n) == IF n = 0 THEN 1 ELSE 2 * Pow2(n - 1)

\* C14: the wait before the i-th retry is 3 seconds doubled i-1 times.
C14_ExponentialBackoff ==
    \A i \in DOMAIN sleeps : sleeps[i] = InitialDelay * Pow2(i - 1)

\* C15: every element of the list fetch_all builds is the text of a response
\* of status 200, never an exception object.
C15_OnlyBodiesReturned ==
    \A k \in DOMAIN full_res : full_res[k].kind = "text"

(***************************************************************************)
(* Properties of parse_info_tiles (specification SpecParse)                *)
(***************************************************************************)
\* C16: a payload that is not JSON, lacks an expected field or has a value of
\* the wrong type adds no row to its tile file, and no call of
\* parse_info_tiles raises.
C16_MalformedPayloadIsolated ==
    /\ raised # "parse_info_tiles"
    /\ \A i \in Processed :
          full_res[i].html # Html(full_res[i].url, dt) =>
              store[<<xvals[i], yvals[i]>>] \in
                  {store0[<<xvals[i], yvals[i]>>],
                   SelectSeqBy(store0[<<xvals[i], yvals[i]>>], PurgeDt(dt))}

(***************************************************************************)
(* Properties of the snapshot (specification SpecSnap)                     *)
(***************************************************************************)
\* driver.py has run to its end
SnapshotWritten == pc = "idle" /\ latest_obs.whole

\* C17: every row of the snapshot has a value for at least one window; a site
\* whose windows are all unavailable has no row.
C17_NoAllUnavailableRow ==
    latest_obs.whole =>
        \A k \in DOMAIN latest_obs.rows :
            \E w \in DOMAIN Windows : latest_obs.rows[k].accum[w] # NaN

\* an active site without any window value was left out, another site was not
C17_Witness ==
    /\ SnapshotWritten
    /\ latest_obs.rows # <<>>
    /\ LET out == PoolOutputs(store, UrlsFrom(x_start, y_start), 1, now)
       IN \E k \in DOMAIN out :
             /\ \A w \in DOMAIN Windows : out[k].accum[w] = NaN
             /\ \A j \in DOMAIN latest_obs.rows :
                   latest_obs.rows[j].siteid # out[k].siteid

\* the newest dateutc of a site over all tile files
SiteLatest(site) ==
    LET own == UNION {{store[tl][i].dateutc :
                          i \in {j \in DOMAIN store[tl] :
                                    store[tl][j].siteid = site}} :
                      tl \in Tiles}
    IN CHOOSE t \in own : \A u \in own : u <= t

\* C18: every site of the snapshot has now - latest_timestamp <=
\* MAX_AGE_MINUTES; a site exactly MAX_AGE_MINUTES old with a window value
\* has a row.
C18_OnlyActiveSites ==
    SnapshotWritten =>
        /\ \A k \in DOMAIN latest_obs.rows :
              /\ now - latest_obs.rows[k].latest_ob_time <= MAX_AGE_MINUTES
              /\ now - SiteLatest(latest_obs.rows[k].siteid) <= MAX_AGE_MINUTES
        /\ \A tl \in Tiles :
              (/\ Len(store[tl]) = 2
               /\ store[tl][1].dateutc = store[tl][2].dateutc - Windows[1]
               /\ store[tl][1].precip # NaN /\ store[tl][2].precip # NaN
               /\ store[tl][1].precip <= store[tl][2].precip
               /\ now - store[tl][2].dateutc = MAX_AGE_MINUTES) =>
                  \E k \in DOMAIN latest_obs.rows :
                      /\ latest_obs.rows[k].siteid = store[tl][2].siteid
                      /\ latest_obs.rows[k].latest_ob_time = store[tl][2].dateutc

\* a site exactly MAX_AGE_MINUTES old is in the snapshot
C18_Witness ==
    /\ SnapshotWritten
    /\ \E k \in DOMAIN latest_obs.rows :
          now - latest_obs.rows[k].latest_ob_time = MAX_AGE_MINUTES

\* C19: the snapshot has at most one row per siteid.
C19_OneRowPerSite ==
    latest_obs.whole =>
        \A j, k \in DOMAIN latest_obs.rows :
            j # k => latest_obs.rows[j].siteid # latest_obs.rows[k].siteid

\* C20: whenever the app reads the snapshot it reads a whole file, the one of
\* the cycle before or the new one.
C20_ReaderSeesWholeSnapshot == seen.whole

(***************************************************************************)
(* Properties of the orchestrator (run_realtime.py)                        *)
(***************************************************************************)
\* rows held by the tile files st: the size of the data directory
StorageSize(st) ==
    Cardinality(UNION {{<<tl, i>> : i \in DOMAIN st[tl]} : tl \in Tiles})

\* C21: no tick issues a fetch while the data directory is larger than the
\* ceiling (here a ceiling of one row per tile): the guard aborts first
C21_StorageGuard ==
    pc = "fetch" => StorageSize(store0) <= Cardinality(Tiles)

\* C22: the orchestrator starts without a snapshot, so before its first tick
\* runs it has fetched each of the last four 15-minute windows
C22_ColdStartBackfill ==
    (pc # "start" /\ ncycles >= 1) => backfills = 4

\* C23: within a tick no tile file changes before fetch_all has returned, and
\* driver.py starts, and the snapshot and the merged store change, only after
\* download_async.py has ended, that is after the last per-tile write
C23_PhaseOrder ==
    [][/\ store' # store => (pc = "parse" /\ pc' = "parse")
       /\ pc = "fetch" => (files' = files /\ now' = now)
       /\ now' # now => (pc = "parse" /\ todo = {})
       /\ (latest_obs' # latest_obs \/ master_db' # master_db) =>
              (pc \in {"parse", "driver"} /\ todo = {} /\ store' = store)]_vars

C23_Witness ==
    /\ pc = "idle"
    /\ attempt > 1
    /\ files # {}
    /\ latest_obs.whole
    /\ latest_obs.rows # <<>>
    /\ master_db # <<>>

\* the download of the running tick has ended with a non-zero status, or the
\* last driver.py did
TickFailed ==
    \/ pc = "parse" /\ todo = {} /\ ExitStatus # 0
    \/ pc = "idle" /\ driver_rc # 0

\* C24: after download_async.py has ended with a non-zero status driver.py is
\* still run and run() returns; after a tick in which the download or the
\* driver failed the next scheduled tick is executed
C24_FailedTickDoesNotStop ==
    /\ (pc = "parse" /\ todo = {} /\ ExitStatus # 0) ~> (pc = "idle" /\ now = dt + 1)
    /\ (TickFailed /\ ncycles < MaxCycles) ~> (pc = "fetch" /\ ncycles = MaxCycles)

C24_Witness ==
    /\ pc = "parse"
    /\ todo = {}
    /\ ncycles = MaxCycles
    /\ ExitStatus # 0
    /\ driver_rc # 0

\* the work items of this run whose body parse_info_tiles wrote to a tile file
Stored == {i \in Processed : Parse(full_res[i]).raises = "none"}

\* C25: download_async.py ends with a non-zero status exactly when the run
\* stored no body
C25_ExitStatus ==
    (pc = "parse" /\ todo = {}) => (ExitStatus # 0 <=> Stored = {})

(***************************************************************************)
(* Properties of the stores across cycles                                  *)
(***************************************************************************)
\* C26: after every cycle master_db.parquet holds no record older than the
\* cycle time minus PURGE_HOURS
C26_MergedDbPurged ==
    CycleDone => \A i \in DOMAIN master_db : master_db[i].dateutc >= PurgeDt(dt)

\* C27: the work items pool.starmap hands to parse_info_tiles in one cycle
\* name pairwise different tiles, whatever the retry rounds before
C27_OneWorkerPerTile ==
    pc = "parse" =>
        \A i, j \in 1..ZipLen :
            <<xvals[i], yvals[i]>> = <<xvals[j], yvals[j]>> => i = j

C27_Witness ==
    /\ pc = "parse"
    /\ attempt > 2
    /\ Cardinality(todo) > 1
    /\ Len(full_res) > Len(xvals)

\* how often row r occurs in df
Occurrences(df, r) == Cardinality({k \in DOMAIN df : df[k] = r})

\* C28: every row a tile file held at the start of the cycle that is not
\* older than purge_dt is in the file, unchanged and as often as before,
\* after parse_info_tiles has run for the tile, whatever the body was
C28_MergeKeepsHistory ==
    \A i \in Processed :
        LET tl == <<xvals[i], yvals[i]>>
        IN \A k \in DOMAIN store0[tl] :
              store0[tl][k].dateutc >= PurgeDt(dt) =>
                  Occurrences(store[tl], store0[tl][k]) >=
                      Occurrences(store0[tl], store0[tl][k])

C28_Witness ==
    /\ \E i \in Processed :
          /\ Parse(full_res[i]).raises = "none"
          /\ Parse(full_res[i]).rows = <<>>
          /\ store[<<xvals[i], yvals[i]>>] # <<>>
          /\ Len(store[<<xvals[i], yvals[i]>>]) < Len(store0[<<xvals[i], yvals[i]>>])
    /\ \E i \in Processed :
          /\ Parse(full_res[i]).raises # "none"
          /\ store0[<<xvals[i], yvals[i]>>] # <<>>
    /\ \E i \in Processed :
          /\ Parse(full_res[i]).rows # <<>>
          /\ Len(store[<<xvals[i], yvals[i]>>]) > Len(Parse(full_res[i]).rows)

(***************************************************************************)
(* Properties of what fetch_all returns                                    *)
(***************************************************************************)
\* C29: when fetch_all has returned, full_res, xvals and yvals have the same
\* length and the i-th body is the answer to the request for the tile
\* (xvals[i], yvals[i])
C29_ReturnedListsAligned ==
    pc = "parse" =>
        /\ Len(full_res) = Len(xvals)
        /\ Len(full_res) = Len(yvals)
        /\ \A i \in 1..ZipLen :
              full_res[i].url = [x |-> xvals[i], y |-> yvals[i]]

(***************************************************************************)
(* Independence of the windows (specification SpecQC)                      *)
(***************************************************************************)
\* C30: data_calc_qc leaves the site history unchanged, and the value of a
\* window is the value data_calc_qc computes for it from the history as
\* create_tile_output first had it, whatever windows were evaluated before
C30_WindowsIndependent ==
    QcCalled =>
        /\ qc_data = qc_data0
        /\ QcVal = DataCalcQC(qc_data0[Len(qc_data0)].dateutc, qc_data0,
                              QcWindow).val

(***************************************************************************)
(* Missing counter values (specification SpecQC)                           *)
(***************************************************************************)
\* C31: when the counter value of the first or of the last record of the
\* window slice is missing, data_calc_qc returns NaN, whatever the number of
\* negative steps in the slice
C31_MissingEndpointUnavailable ==
    (/\ QcInTolerance
     /\ \/ ~IsFinite(QcSlice[1].precip)
        \/ ~IsFinite(QcSlice[Len(QcSlice)].precip))
    => QcVal = NaN

\* the last window's slice starts with a missing value and then has one
\* negative step, at a daily reset
C31_Witness ==
    /\ Len(qc_out) = Len(Windows)
    /\ QcInTolerance
    /\ ~IsFinite(QcSlice[1].precip)
    /\ Cardinality(Backwards(QcSlice)) = 1
    /\ \E k \in Backwards(QcSlice) :
          IsDailyReset(QcSlice[k].localhour, QcSlice[k + 1].localhour)
    /\ QcVal = NaN

\* C32: every value data_calc_qc returns that is not NaN is >= 0
C32_NonNegative ==
    \A k \in DOMAIN qc_out : qc_out[k] # NaN => qc_out[k] >= 0

(***************************************************************************)
(* Properties of the scheduler (specifications SpecSched and SpecInit)     *)
(***************************************************************************)
\* C33: at most one subprocess is alive at any moment and none is started
\* while another is alive; the next_run of a job changes only when its own
\* run() has returned, and a job that is due, also one that came due while
\* an earlier run() was still going on, is run
C33_TicksNeverOverlap ==
    /\ [](Cardinality(running) <= 1)
    /\ [][Len(log') > Len(log) => running = {}]_vars
    /\ [][\A j \in DOMAIN JobMinutes :
             next_run'[j] # next_run[j] =>
                 (cron_pc.at = "run_driver" /\ cron_pc.job = j)]_vars
    /\ \A j \in DOMAIN JobMinutes :
          (next_run[j] <= clock) ~> (next_run[j] > clock)

\* the download of a job starts late: the driver of the run before it was
\* started when the job was already due
C33_Witness ==
    /\ cron_pc.at = "run_download"
    /\ Len(log) > 2
    /\ log[Len(log)].at > JobMinutes[cron_pc.job]
    /\ log[Len(log) - 1].cmd = "driver.py"
    /\ log[Len(log) - 1].at > JobMinutes[cron_pc.job]
    /\ running = {Len(log)}

\* the k-th Popen of initialize_data is download_async.py -t for the time
\* BackMinutes[k] before latest_quarter_hour
IsBackfill(k) ==
    /\ log[k].cmd = "download_async.py"
    /\ Strptime(log[k].arg) = cron_pc.lqh - (60 - 15 * (k - 1))

\* C34: when initialize_data has returned it has started four downloads, for
\* 60, 45, 30 and 15 minutes before the latest quarter hour in this order,
\* and then driver.py once; no process was started while another was alive
C34_BackfillRuns ==
    /\ [](cron_pc.at = "done" =>
            /\ Len(log) = 5
            /\ \A k \in 1..4 : IsBackfill(k)
            /\ log[5].cmd = "driver.py"
            /\ backfills = 4
            /\ running = {})
    /\ [](\A k \in DOMAIN log : k <= 4 => IsBackfill(k))
    /\ [][Len(log') > Len(log) => running = {}]_vars

C34_Witness ==
    /\ cron_pc.at = "done"
    /\ cron_pc.lqh = Floor15(StartTime) + 15
    /\ log[1].arg = Datestring(Floor15(StartTime) - 45)
    /\ log[1].at < log[4].at
    /\ log[5].at > log[4].at

====
